---- MODULE Spec2Model ----
(***************************************************************************)
(* Customer / Address API: the pydantic resource models                    *)
(* (models/customer.py, models/address.py) and the FastAPI handlers        *)
(* (main.py).                                                              *)
(*                                                                         *)
(* Values.  A Python str is a sequence of one-character strings; a list is *)
(* a sequence; a date is <<year, month, day>>.  An Optional value is a set *)
(* of at most one element: None is {} and a value v is {v}.  A JSON body,  *)
(* a dict and a model dump are functions from the field names that are SET *)
(* to such values, so a field that is omitted (not in the DOMAIN) differs  *)
(* from a field that is sent as null (mapped to None).                     *)
(***************************************************************************)
EXTENDS Integers, Sequences, FiniteSets, TLC

\* ---------------------------------------------------------------- bounds
\* Largest value the clock takes.
MaxClock == 2
\* Number of fields in which a create body departs from the example body.
MaxDeviations == 1
\* Largest number of fields an update body sets.
MaxPatchFields == 1

\* ---------------------------------------------------------------- values
None == {}
Some(v) == {v}
Val(o) == CHOOSE v \in o : TRUE

Upper == {"A", "B", "C", "D", "E", "F", "G", "H", "I", "J", "K", "L", "M",
          "N", "O", "P", "Q", "R", "S", "T", "U", "V", "W", "X", "Y", "Z"}
Lower == {"a", "b", "c", "d", "e", "f", "g", "h", "i", "j", "k", "l", "m",
          "n", "o", "p", "q", "r", "s", "t", "u", "v", "w", "x", "y", "z"}
Digit == {"0", "1", "2", "3", "4", "5", "6", "7", "8", "9"}
\* \w of the regular expressions
Word == Upper \cup Lower \cup Digit \cup {"_"}
Whitespace == {" "}

\* ------------------------------------------------- models/customer.py types
\* [\w\.-]
WordDotDash == Word \cup {".", "-"}

\* StringConstraints(strip_whitespace=True)
RECURSIVE StripLeft(_)
StripLeft(s) ==
    IF s # <<>> /\ Head(s) \in Whitespace THEN StripLeft(Tail(s)) ELSE s

RECURSIVE StripRight(_)
StripRight(s) ==
    IF s # <<>> /\ s[Len(s)] \in Whitespace
    THEN StripRight(SubSeq(s, 1, Len(s) - 1))
    ELSE s

StripWhitespace(s) == StripRight(StripLeft(s))

\* pattern ^[\w\.-]+@[\w\.-]+\.edu$
MatchEduPattern(s) ==
    \E i \in 1..Len(s) :
        /\ s[i] = "@"
        /\ i >= 2
        /\ \A j \in 1..(i - 1) : s[j] \in WordDotDash
        /\ Len(s) - i >= 5
        /\ \A j \in (i + 1)..(Len(s) - 4) : s[j] \in WordDotDash
        /\ SubSeq(s, Len(s) - 3, Len(s)) = <<".", "e", "d", "u">>

\* EduEmail: the whitespace is stripped, then the pattern is matched
EduEmailValid(s) == MatchEduPattern(StripWhitespace(s))
EduEmail(s) == StripWhitespace(s)

\* CourseIDType: pattern ^[A-Z]{2,4}\d{3,4}$
CourseIDType(s) ==
    \E k \in 2..4 :
        /\ k <= Len(s)
        /\ (Len(s) - k) \in 3..4
        /\ \A j \in 1..k : s[j] \in Upper
        /\ \A j \in (k + 1)..Len(s) : s[j] \in Digit

\* datetime.date: a calendar date
DaysInMonth(y, m) ==
    IF m \in {4, 6, 9, 11} THEN 30
    ELSE IF m # 2 THEN 31
    ELSE IF (y % 4 = 0 /\ y % 100 # 0) \/ y % 400 = 0 THEN 29 ELSE 28

DateValid(d) ==
    /\ d[2] \in 1..12
    /\ d[3] \in 1..DaysInMonth(d[1], d[2])

\* ------------------------------------------------------- field names
AddressFields == {"street", "city", "state", "postal_code", "country"}
CustomerFields == {"first_name", "middle_name", "last_name", "university_id",
                   "email", "phone", "address", "birth_date", "status"}

\* dict.update
DictUpdate(d, u) ==
    [k \in DOMAIN d \cup DOMAIN u |-> IF k \in DOMAIN u THEN u[k] ELSE d[k]]

Restrict(d, ks) == [k \in DOMAIN d \cap ks |-> d[k]]


\* ------------------------------------------------- models/address.py
\* AddressBase: five required str fields, no further constraint
AddressBaseValid(raw) ==
    \A f \in AddressFields : f \in DOMAIN raw /\ raw[f] # None

AddressBase(raw) == Restrict(raw, AddressFields)

\* AddressCreate(AddressBase) adds nothing
AddressCreateValid(raw) == AddressBaseValid(raw)
AddressCreate(raw) == AddressBase(raw)

\* AddressUpdate: every field Optional[str] = None; the value is the dump with
\* exclude_unset=True, the fields that were set
AddressUpdateValid(raw) == TRUE
AddressUpdate(raw) == Restrict(raw, AddressFields)

AddressReadFields == AddressFields \cup {"address_id", "created_at", "updated_at"}

\* AddressRead(AddressBase): the handlers always pass the three server fields
AddressReadValid(data) == AddressBaseValid(data)
AddressRead(data) == Restrict(data, AddressReadFields)

\* ------------------------------------------------- models/customer.py
AddressListValid(l) == \A i \in 1..Len(l) : AddressBaseValid(l[i])
AddressList(l) == [i \in 1..Len(l) |-> AddressBase(l[i])]

sActive == <<"a", "c", "t", "i", "v", "e">>

\* a variant of the defaults in which status has no default value
CustomerBaseDefaultsNoStatus ==
    [middle_name |-> None, university_id |-> None, phone |-> None,
     address |-> Some(<<>>), birth_date |-> None, status |-> None]

\* the defaults of CustomerBase: None, default_factory=list, "active"
CustomerBaseDefaults ==
    [middle_name |-> None, university_id |-> None, phone |-> None,
     address |-> Some(<<>>), birth_date |-> None, status |-> Some(sActive)]

CustomerBaseValid(raw) ==
    /\ "first_name" \in DOMAIN raw /\ raw["first_name"] # None
    /\ "last_name" \in DOMAIN raw /\ raw["last_name"] # None
    /\ "university_id" \in DOMAIN raw =>
           \/ raw["university_id"] = None
           \/ CourseIDType(Val(raw["university_id"]))
    /\ "email" \in DOMAIN raw /\ raw["email"] # None
    /\ EduEmailValid(Val(raw["email"]))
    /\ "address" \in DOMAIN raw =>
           /\ raw["address"] # None
           /\ AddressListValid(Val(raw["address"]))
    /\ "birth_date" \in DOMAIN raw =>
           \/ raw["birth_date"] = None
           \/ DateValid(Val(raw["birth_date"]))
    /\ "status" \in DOMAIN raw => raw["status"] # None

\* the validated values of the fields that were set
CustomerFieldValue(f, v) ==
    IF v = None THEN None
    ELSE IF f = "email" THEN Some(EduEmail(Val(v)))
    ELSE IF f = "address" THEN Some(AddressList(Val(v)))
    ELSE v

CustomerBase(raw) ==
    DictUpdate(CustomerBaseDefaults,
               [f \in DOMAIN raw \cap CustomerFields |-> CustomerFieldValue(f, raw[f])])

\* CustomerCreate(CustomerBase) adds nothing
CustomerCreateValid(raw) == CustomerBaseValid(raw)
CustomerCreate(raw) == CustomerBase(raw)

\* CustomerUpdate: every field Optional; university_id is a plain Optional[str],
\* email an Optional[EduEmail], address an Optional[List[AddressBase]]
CustomerUpdateValid(raw) ==
    /\ "email" \in DOMAIN raw =>
           \/ raw["email"] = None
           \/ EduEmailValid(Val(raw["email"]))
    /\ "address" \in DOMAIN raw =>
           \/ raw["address"] = None
           \/ AddressListValid(Val(raw["address"]))
    /\ "birth_date" \in DOMAIN raw =>
           \/ raw["birth_date"] = None
           \/ DateValid(Val(raw["birth_date"]))

\* a variant of the dump that excludes the None values (exclude_none=True)
\* and not the unset fields
CustomerUpdateExcludeNone(raw) ==
    [f \in {g \in DOMAIN raw \cap CustomerFields : raw[g] # None} |->
        CustomerFieldValue(f, raw[f])]

\* update.model_dump(exclude_unset=True): the fields that were set
CustomerUpdate(raw) ==
    [f \in DOMAIN raw \cap CustomerFields |-> CustomerFieldValue(f, raw[f])]

CustomerReadFields == CustomerFields \cup {"customer_id", "created_at", "updated_at"}

\* a variant of the Read model whose fields are validated as loosely as those
\* of CustomerUpdate
CustomerReadValidAsUpdate(data) == CustomerUpdateValid(data)

\* CustomerRead(CustomerBase): the handlers always pass the three server fields
CustomerReadValid(data) == CustomerBaseValid(data)
CustomerRead(data) ==
    DictUpdate(CustomerBase(data),
               Restrict(data, {"customer_id", "created_at", "updated_at"}))


\* ------------------------------------------------- main.py: the dummy records
sRahul == <<"R", "a", "h", "u", "l">>
sK == <<"K", ".">>
sSingh == <<"S", "i", "n", "g", "h">>
sUNI0001 == <<"U", "N", "I", "0", "0", "0", "1">>
sRahulEmail == <<"r", "a", "h", "u", "l", ".", "s", "i", "n", "g", "h", "@", "c", "o", "l", "u", "m", "b", "i", "a", ".", "e", "d", "u">>
sPhone == <<"+", "1", "-", "5", "5", "5", "-", "1", "2", "3", "-", "4", "5", "6", "7">>
sBroadway == <<"1", "2", "3", " ", "B", "r", "o", "a", "d", "w", "a", "y", " ", "A", "v", "e">>
sNewYork == <<"N", "e", "w", " ", "Y", "o", "r", "k">>
sNY == <<"N", "Y">>
s10027 == <<"1", "0", "0", "2", "7">>
sUSA == <<"U", "S", "A">>
sElm == <<"4", "5", "6", " ", "E", "l", "m", " ", "S", "t", "r", "e", "e", "t">>
sBoston == <<"B", "o", "s", "t", "o", "n">>
sMA == <<"M", "A">>
s02118 == <<"0", "2", "1", "1", "8">>

\* the address of get_customer_by_id, update_customer and update_address
BroadwayAddress ==
    [street |-> Some(sBroadway), city |-> Some(sNewYork), state |-> Some(sNY),
     postal_code |-> Some(s10027), country |-> Some(sUSA)]

\* the second address of list_customer_addresses
ElmAddress ==
    [street |-> Some(sElm), city |-> Some(sBoston), state |-> Some(sMA),
     postal_code |-> Some(s02118), country |-> Some(sUSA)]

\* the keyword arguments of the CustomerRead of get_customer_by_id and of
\* update_customer
DummyCustomer(id, created, updated) ==
    [customer_id |-> id,
     first_name |-> Some(sRahul), middle_name |-> Some(sK),
     last_name |-> Some(sSingh), university_id |-> Some(sUNI0001),
     email |-> Some(sRahulEmail), phone |-> Some(sPhone),
     birth_date |-> Some(<<1995, 5, 20>>), status |-> Some(sActive),
     address |-> Some(<<AddressBase(BroadwayAddress)>>),
     created_at |-> created, updated_at |-> updated]

\* the keyword arguments of an AddressRead of the address handlers
DummyAddress(addr, id, created, updated) ==
    DictUpdate(addr, [address_id |-> id, created_at |-> created, updated_at |-> updated])

\* ------------------------------------------------- request bodies
sEmpty == <<>>
sAnn == <<"A", "n", "n">>
sLee == <<"L", "e", "e">>
sMid == <<"K", "u", "m", "a", "r">>
sAB12 == <<"A", "B", "1", "2">>
sAB123 == <<"A", "B", "1", "2", "3">>
sABCD1234 == <<"A", "B", "C", "D", "1", "2", "3", "4">>
sEduEmail == <<"r", "a", "h", "u", "l", "@", "c", "o", "l", "u", "m", "b", "i", "a", ".", "e", "d", "u">>
sPaddedEmail == <<" ", "a", "n", "n", "@", "m", "i", "t", ".", "e", "d", "u", " ">>
sComEmail == <<"a", "@", "b", ".", "c", "o", "m">>
sPhone2 == <<"+", "1", "-", "6", "4", "6", "-", "8", "9", "5", "-", "5", "7", "9", "6">>
sInactive == <<"i", "n", "a", "c", "t", "i", "v", "e">>

\* an address body without its street
NoStreetAddress == Restrict(ElmAddress, AddressFields \ {"street"})

\* the values a body may give to a field (None is an explicit null)
CustomerFieldInputs ==
    [first_name |-> {None, Some(sEmpty), Some(sAnn)},
     middle_name |-> {None, Some(sMid)},
     last_name |-> {None, Some(sEmpty), Some(sLee)},
     university_id |-> {None, Some(sAB12), Some(sAB123), Some(sABCD1234)},
     email |-> {None, Some(sPaddedEmail), Some(sComEmail)},
     phone |-> {None, Some(sPhone2)},
     address |-> {None, Some(<<>>), Some(<<ElmAddress>>),
                  Some(<<BroadwayAddress, NoStreetAddress>>)},
     birth_date |-> {None, Some(<<2000, 7, 15>>), Some(<<2001, 2, 29>>)},
     status |-> {None, Some(sInactive)}]

AddressFieldInputs ==
    [f \in AddressFields |-> {None, Some(sEmpty), ElmAddress[f]}]

Remove(d, f) == [k \in DOMAIN d \ {f} |-> d[k]]

\* the bodies one step away from body p: a field dropped, or a field given
\* one of its input values
Deviate(p, inputs) ==
    {Remove(p, f) : f \in DOMAIN p}
        \cup UNION {{DictUpdate(p, [k \in {f} |-> v]) : v \in inputs[f]} :
                    f \in DOMAIN inputs}

RECURSIVE Deviations(_, _, _)
Deviations(ps, inputs, n) ==
    IF n = 0 THEN ps
    ELSE Deviations(ps \cup UNION {Deviate(p, inputs) : p \in ps}, inputs, n - 1)

\* the example body of CustomerCreate, its required fields only
ExampleCustomer ==
    [first_name |-> Some(sRahul), last_name |-> Some(sSingh),
     email |-> Some(sEduEmail)]

CustomerCreateBodies == Deviations({ExampleCustomer}, CustomerFieldInputs, MaxDeviations)
AddressCreateBodies == Deviations({BroadwayAddress}, AddressFieldInputs, MaxDeviations)

\* the update bodies that set at most MaxPatchFields fields
PatchBodies(inputs) ==
    {p \in Deviations({<<>>}, inputs, MaxPatchFields) :
        Cardinality(DOMAIN p) <= MaxPatchFields}

CustomerUpdateBodies == PatchBodies(CustomerFieldInputs)
AddressUpdateBodies == PatchBodies(AddressFieldInputs)


\* ------------------------------------------------- main.py: the handlers
VARIABLES
    request,    \* the request being served (at most one): [route, path, query, body]
    clock,      \* the last value datetime.now(UTC) returned
    issued,     \* the identifiers the create handlers have returned so far
    existing,   \* the record the update handler merged onto (at most one)
    resp        \* the response to the request (at most one): [status, body],
                \* body holding the returned entity, if any

vars == <<request, clock, issued, existing, resp>>

\* what uuid4() may return
Ids == {"id-a", "id-b"}

\* a read of datetime.now(UTC) after the clock showed c: it never goes back
Now(c) == c..MaxClock

Response(status, body) == [status |-> status, body |-> body]

\* FastAPI's answer to a request that does not fit the handler's signature
ValidationError == Response(422, {})
\* an exception raised inside a handler
InternalError == Response(500, {})

Request(route, path, query, body) ==
    [route |-> route, path |-> path, query |-> query, body |-> body]

\* the requests of the clients: a route of the app, the identifier in its path,
\* its query parameter and its JSON body
Requests ==
    {Request("create_customer", {}, {}, b) : b \in CustomerCreateBodies}
        \cup {Request("get_customer_by_id", {i}, {}, <<>>) : i \in Ids}
        \cup {Request("update_customer", {i}, {}, b) :
                i \in Ids, b \in CustomerUpdateBodies}
        \cup {Request("delete_customer", {i}, {}, <<>>) : i \in Ids}
        \cup {Request("create_address", {}, {}, b) : b \in AddressCreateBodies}
        \cup {Request("update_address", {i}, {}, b) :
                i \in Ids, b \in AddressUpdateBodies}
        \cup {Request("delete_address", {i}, q, <<>>) :
                i \in Ids, q \in {{}, {sEmpty}}}

Init ==
    /\ request = {}
    /\ clock = 0
    /\ issued = {}
    /\ existing = {}
    /\ resp = {}

\* a client sends a request to the idle app
Send ==
    /\ request = {}
    /\ \E r \in Requests : request' = {r}
    /\ UNCHANGED <<clock, issued, existing, resp>>

\* the response is delivered and the app is idle again
Reply ==
    /\ resp # {}
    /\ request' = {}
    /\ resp' = {}
    /\ existing' = {}
    /\ UNCHANGED <<clock, issued>>

\* the app routes the pending request to the handler of its route
Routed(route) ==
    /\ request # {}
    /\ resp = {}
    /\ Val(request).route = route

body == Val(request).body

\* CustomerRead(customer_id=uuid4(), created_at=now, updated_at=now,
\*              **customer.model_dump())
create_customer_read(customer, id, t1, t2) ==
    LET data == DictUpdate([customer_id |-> id, created_at |-> t1, updated_at |-> t2],
                           customer)
    IN  IF CustomerReadValid(data)
        THEN Response(201, {CustomerRead(data)})
        ELSE InternalError

create_customer ==
    /\ Routed("create_customer")
    /\ UNCHANGED <<request, existing>>
    /\ IF ~CustomerCreateValid(body)
       THEN /\ resp' = {ValidationError}
            /\ UNCHANGED <<clock, issued>>
       ELSE \E id \in Ids : \E t1 \in Now(clock) : \E t2 \in Now(t1) :
                LET r == create_customer_read(CustomerCreate(body), id, t1, t2)
                IN  /\ resp' = {r}
                    /\ clock' = t2
                    /\ issued' = issued \cup {e.customer_id : e \in r.body}

\* the path's customer_id is not used
get_customer_by_id ==
    /\ Routed("get_customer_by_id")
    /\ \E id \in Ids : \E t1 \in Now(clock) : \E t2 \in Now(t1) :
        /\ resp' = {Response(200, {CustomerRead(DummyCustomer(id, t1, t2))})}
        /\ clock' = t2
    /\ UNCHANGED <<request, issued, existing>>

\* a variant of the merge that extends the address list by the update's list
update_customer_merge_extend(old, update, now) ==
    LET merged == DictUpdate(old, update)
        data == [merged EXCEPT
                    !["updated_at"] = now,
                    !["address"] =
                        IF "address" \in DOMAIN update /\ update["address"] # None
                        THEN Some(Val(old["address"]) \o Val(update["address"]))
                        ELSE merged["address"]]
    IN  IF CustomerReadValid(data) THEN {CustomerRead(data)} ELSE {}

\* data = existing.model_dump(); data.update(update.model_dump(exclude_unset=True));
\* data["updated_at"] = now; CustomerRead(**data)
update_customer_merge(old, update, now) ==
    LET data == [DictUpdate(old, update) EXCEPT !["updated_at"] = now]
    IN  IF CustomerReadValid(data) THEN {CustomerRead(data)} ELSE {}

\* the path's customer_id is not used
update_customer ==
    /\ Routed("update_customer")
    /\ UNCHANGED <<request, issued>>
    /\ IF ~CustomerUpdateValid(body)
       THEN /\ resp' = {ValidationError}
            /\ UNCHANGED <<clock, existing>>
       ELSE \E id \in Ids : \E t1 \in Now(clock) : \E t2 \in Now(t1) : \E t3 \in Now(t2) :
                LET old == CustomerRead(DummyCustomer(id, t1, t2))
                    merged == update_customer_merge(old, CustomerUpdate(body), t3)
                IN  /\ existing' = {old}
                    /\ resp' = {IF merged = {} THEN InternalError
                                ELSE Response(200, merged)}
                    /\ clock' = t3

\* return JSONResponse(status_code=204, content=None)
delete_customer ==
    /\ Routed("delete_customer")
    /\ resp' = {Response(204, {})}
    /\ UNCHANGED <<request, clock, issued, existing>>

\* AddressRead(address_id=uuid4(), created_at=now, updated_at=now,
\*             **address.model_dump())
create_address_read(address, id, t1, t2) ==
    LET data == DictUpdate([address_id |-> id, created_at |-> t1, updated_at |-> t2],
                           address)
    IN  IF AddressReadValid(data)
        THEN Response(201, {AddressRead(data)})
        ELSE InternalError

create_address ==
    /\ Routed("create_address")
    /\ UNCHANGED <<request, existing>>
    /\ IF ~AddressCreateValid(body)
       THEN /\ resp' = {ValidationError}
            /\ UNCHANGED <<clock, issued>>
       ELSE \E id \in Ids : \E t1 \in Now(clock) : \E t2 \in Now(t1) :
                LET r == create_address_read(AddressCreate(body), id, t1, t2)
                IN  /\ resp' = {r}
                    /\ clock' = t2
                    /\ issued' = issued \cup {e.address_id : e \in r.body}

\* data = existing.model_dump(); data.update(update.model_dump(exclude_unset=True));
\* data["updated_at"] = now; AddressRead(**data)
update_address_merge(old, update, now) ==
    LET data == [DictUpdate(old, update) EXCEPT !["updated_at"] = now]
    IN  IF AddressReadValid(data) THEN {AddressRead(data)} ELSE {}

\* the path's customer_id and address_id are not used
update_address ==
    /\ Routed("update_address")
    /\ UNCHANGED <<request, issued>>
    /\ IF ~AddressUpdateValid(body)
       THEN /\ resp' = {ValidationError}
            /\ UNCHANGED <<clock, existing>>
       ELSE \E id \in Ids : \E t1 \in Now(clock) : \E t2 \in Now(t1) : \E t3 \in Now(t2) :
                LET old == AddressRead(DummyAddress(BroadwayAddress, id, t1, t2))
                    merged == update_address_merge(old, AddressUpdate(body), t3)
                IN  /\ existing' = {old}
                    /\ resp' = {IF merged = {} THEN InternalError
                                ELSE Response(200, merged)}
                    /\ clock' = t3

\* def delete_address(address_uni: str): return -- address_uni is no path
\* parameter of the route, so it is a required query parameter
delete_address ==
    /\ Routed("delete_address")
    /\ resp' = {IF Val(request).query = {} THEN ValidationError ELSE Response(204, {})}
    /\ UNCHANGED <<request, clock, issued, existing>>

Next ==
    \/ Send
    \/ create_customer
    \/ get_customer_by_id
    \/ update_customer
    \/ delete_customer
    \/ create_address
    \/ update_address
    \/ delete_address
    \/ Reply

Spec == Init /\ [][Next]_vars


\* ------------------------------------------------- what the properties speak of
\* the request of the given route has been answered
Done(route) ==
    /\ request # {}
    /\ resp # {}
    /\ Val(request).route = route

\* the response carries a Read entity
Returned == Val(resp).body # {}
Entity == Val(Val(resp).body)

\* the update body passed the validation of its Update model, so the handler ran
Accepted == Val(resp).status # 422

\* the response is entity e of the given fields: old with the fields of patch
\* overwritten, the identifier and created_at of old
IsMerge(e, old, patch, fields, idField) ==
    /\ \A f \in fields :
           e[f] = IF f \in DOMAIN patch THEN patch[f] ELSE old[f]
    /\ e[idField] = old[idField]
    /\ e["created_at"] = old["created_at"]

\* C1: every accepted Update body makes update_customer and update_address
\* return an entity that has the body's value in each field the body sets
\* (the address list as a whole), the existing entity's value in every other
\* field, and the existing entity's identifier and created_at.
C1_UpdateReturnsMergedEntity ==
    /\ Done("update_customer") /\ Accepted =>
           /\ Returned
           /\ IsMerge(Entity, Val(existing), CustomerUpdate(body),
                      CustomerFields, "customer_id")
    /\ Done("update_address") /\ Accepted =>
           /\ Returned
           /\ IsMerge(Entity, Val(existing), AddressUpdate(body),
                      AddressFields, "address_id")

\* C2: the entity an update returns has an updated_at strictly greater than
\* the updated_at of the entity it was merged onto (the clock never goes back).
C2_UpdatedAtStrictlyGreater ==
    (Done("update_customer") \/ Done("update_address")) /\ Returned =>
        Entity["updated_at"] > Val(existing)["updated_at"]

\* C3: the entity a create returns has created_at equal to updated_at.
C3_CreatedAtEqualsUpdatedAt ==
    (Done("create_customer") \/ Done("create_address")) /\ Returned =>
        Entity["created_at"] = Entity["updated_at"]


\* the value a create body gives to a customer field: its own, or the default
\* of a field it omits (status "active", no address, None otherwise)
SentOrDefault(b, f) ==
    IF f \in DOMAIN b THEN b[f]
    ELSE IF f = "status" THEN Some(sActive)
    ELSE IF f = "address" THEN Some(<<>>)
    ELSE None

\* the entity carries its identifier and both timestamps
HasServerFields(e, idField) ==
    /\ {idField, "created_at", "updated_at"} \subseteq DOMAIN e
    /\ e[idField] \in Ids
    /\ e["created_at"] \in 0..MaxClock
    /\ e["updated_at"] \in 0..MaxClock

IllFormed(b) ==
    \/ "email" \in DOMAIN b /\ (b["email"] = None \/ ~EduEmailValid(Val(b["email"])))
    \/ "university_id" \in DOMAIN b /\ b["university_id"] # None
           /\ ~CourseIDType(Val(b["university_id"]))
    \/ "status" \in DOMAIN b /\ b["status"] = None

\* C5: every Customer entity a handler returns has an email of the .edu
\* pattern, a university_id that is null or of the course-code pattern, and a
\* status that is not null; a request whose body would break this, an explicit
\* null or an ill-formed value included, ends in an error and returns no entity.
C5_CustomerReadInvariant ==
    \A route \in {"create_customer", "get_customer_by_id", "update_customer"} :
        Done(route) =>
            /\ Returned =>
                   /\ Entity["email"] # None
                   /\ MatchEduPattern(Val(Entity["email"]))
                   /\ \/ Entity["university_id"] = None
                      \/ CourseIDType(Val(Entity["university_id"]))
                   /\ Entity["status"] # None
            /\ IllFormed(body) =>
                   /\ ~Returned
                   /\ Val(resp).status \in {422, 500}

\* an update that sets the status to null was answered with an error
C5_Witness ==
    /\ Done("update_customer")
    /\ "status" \in DOMAIN body
    /\ body["status"] = None
    /\ ~Returned

\* C6: every Customer Update body that validation accepts has a university_id
\* that is absent (or null) or of the course-code pattern, and an email that is
\* absent (or null) or of the .edu pattern.
C6_UpdateValidationChecksFormats ==
    Done("update_customer") /\ Accepted =>
        /\ "university_id" \in DOMAIN body =>
               \/ body["university_id"] = None
               \/ CourseIDType(Val(body["university_id"]))
        /\ "email" \in DOMAIN body =>
               \/ body["email"] = None
               \/ EduEmailValid(Val(body["email"]))

\* a required field is missing from the body or is the empty string
MissingOrEmpty(b, required) ==
    \E f \in required : f \notin DOMAIN b \/ b[f] = Some(sEmpty)

\* C7: a create whose body lacks a required field, or gives it the empty
\* string, is rejected with a validation error and returns no entity.
C7_CreateRejectsMissingOrEmpty ==
    /\ Done("create_customer")
           /\ MissingOrEmpty(body, {"first_name", "last_name", "email"}) =>
               Val(resp).status = 422 /\ ~Returned
    /\ Done("create_address") /\ MissingOrEmpty(body, AddressFields) =>
               Val(resp).status = 422 /\ ~Returned

\* C8: a delete of an identifier that no create has issued ends in a
\* not-found error.
C8_DeleteUnknownIsNotFound ==
    (Done("delete_customer") \/ Done("delete_address"))
            /\ Val(request).path \cap issued = {} =>
        Val(resp).status = 404

\* the entity again differs from entity e in updated_at at most
SameButUpdatedAt(again, e) ==
    /\ DOMAIN again = DOMAIN e
    /\ \A f \in DOMAIN e \ {"updated_at"} : again[f] = e[f]

\* C9: applying the update body to the entity an update returned gives, at any
\* later time, an entity with the same value in every field but updated_at.
C9_UpdateIdempotent ==
    /\ Done("update_customer") /\ Returned =>
           \A t \in Now(clock) :
               LET again == update_customer_merge(Entity, CustomerUpdate(body), t)
               IN  again # {} /\ SameButUpdatedAt(Val(again), Entity)
    /\ Done("update_address") /\ Returned =>
           \A t \in Now(clock) :
               LET again == update_address_merge(Entity, AddressUpdate(body), t)
               IN  again # {} /\ SameButUpdatedAt(Val(again), Entity)

\* an update that replaced the address list returned an entity
C9_Witness ==
    /\ Done("update_customer")
    /\ Returned
    /\ "address" \in DOMAIN body
    /\ Entity["address"] # Val(existing)["address"]

OptionalCustomerFields == {"middle_name", "university_id", "phone", "birth_date"}

\* C10: for each optional Customer field, an update that sends the field as
\* null returns the field as null (the update that sends nothing else does
\* return an entity), and an update that omits the field returns the existing
\* entity's value of it.
C10_NullDiffersFromOmitted ==
    Done("update_customer") =>
        \A f \in OptionalCustomerFields :
            /\ f \in DOMAIN body /\ body[f] = None =>
                   /\ DOMAIN body = {f} => Returned
                   /\ Returned => Entity[f] = None
            /\ f \notin DOMAIN body /\ Returned =>
                   Entity[f] = Val(existing)[f]

\* an update that sent university_id as null cleared the existing value
C10_Witness ==
    /\ Done("update_customer")
    /\ Returned
    /\ "university_id" \in DOMAIN body
    /\ body["university_id"] = None
    /\ Val(existing)["university_id"] # None
    /\ Entity["university_id"] = None
    /\ Entity["phone"] = Val(existing)["phone"]

====
